---- MODULE Spec2Model ----
(***************************************************************************)
(* Model of sunspot.py: the Ephemeris class (construction from the text    *)
(* returned by the Horizons service, and its query methods) and the        *)
(* response validation of get_jpl_ephemeris.                               *)
(*                                                                         *)
(* A Python str is modelled as a sequence of atoms.  An atom is a single   *)
(* character, or one of the fixed phrases the code searches for as a whole *)
(* (the two sentinel tokens, the eleven fault phrases, the date title).    *)
(* No fault phrase is a substring of another one, so "phrase in response"  *)
(* is the occurrence of the phrase's atom.  A Python list is a sequence,   *)
(* indexed from 0 in the code and from 1 here.                             *)
(***************************************************************************)
EXTENDS Integers, Sequences, FiniteSets, TLC

(***************************************************************************)
(* Bounds of the enumerated responses.                                     *)
(***************************************************************************)
MaxPre == 2
MaxRows == 2
MaxFaults == 2

(***************************************************************************)
(* Program constants.                                                      *)
(***************************************************************************)
SOE == "$$SOE"
EOE == "$$EOE"
NL == "\n"
COMMA == ","
SPACE == " "
DATE_TITLE == <<"Date__(UT)__HR:MN:SS">>

ILLEGAL_CHARACTER_FROM_JPL == { <<"C">>, <<"m">>, <<"N">>, <<"A">>, <<"*">>, <<>> }

FAULT_MARKERS ==
  << "Cannot use print-out interval <= zero",
     "Bad dates -- start must be earlier than stop",
     "Cannot interpret date. Type \"?!\" or try YYYY-MMM-DD {HH:MN} format",
     "Cannot interpret date. Type \"?!\" or try YYYY-Mon-Dy {HH:MM} format.",
     "No matches found.",
     "Use ID# to make unique selection",
     "No site matches. Use \"*@body\" to list, \"c@body\" to enter coords, ?! for help.",
     "Observer table for observer=target disallowed.",
     "Unknown units specification -- re-enter",
     "exceeds 90024 line max -- change step-size",
     "Unknown quantity requested" >>

\* the remediation hint each raise appends to the quoted phrase
FAULT_HINTS ==
  << "Confirm valid temporal step size.",
     "Check start or stop time.",
     "Check date format.",
     "Check date format.",
     "Verify matching 'Target Body' here: https://ssd.jpl.nasa.gov/horizons/app.html#/",
     "Use precise ID# to narrow 'Target Body' search: https://ssd.jpl.nasa.gov/horizons/app.html#/",
     "Check 'Target Body' center.",
     "Cannot view Earth from Earth.",
     "Check step_size argument format.",
     "Horizons prints a 90024 entry maximum.",
     "Check 'quantity' argument for recovering JPL ephemeris." >>

\* the message of the SystemError raised for the k-th phrase
FaultMessage(k) == [phrase |-> FAULT_MARKERS[k], hint |-> FAULT_HINTS[k]]
NoFault == [phrase |-> "", hint |-> ""]

(***************************************************************************)
(* Python built-ins used by the code.                                      *)
(***************************************************************************)
\* x in s, for a str s and a phrase x, and for a list s and an element x
Contains(s, x) == \E i \in 1..Len(s) : s[i] = x

\* list.index(x): the 0-based position of the first element equal to x,
\* ValueError when there is none
ListIndex(s, x) ==
  IF Contains(s, x)
  THEN [err |-> "", i |-> (CHOOSE i \in 1..Len(s) :
                             /\ s[i] = x
                             /\ \A k \in 1..(i-1) : s[k] # x) - 1]
  ELSE [err |-> "ValueError", i |-> 0]

\* list[i] for an int i: a negative i counts from the end, IndexError
\* outside -len..len-1
ListItem(s, i) ==
  IF i >= 0
  THEN IF i < Len(s) THEN [err |-> "", v |-> s[i + 1]]
                     ELSE [err |-> "IndexError", v |-> <<>>]
  ELSE IF -i <= Len(s) THEN [err |-> "", v |-> s[Len(s) + i + 1]]
                       ELSE [err |-> "IndexError", v |-> <<>>]

\* list[lo:hi] for 0 <= lo, 0 <= hi: empty when hi <= lo
ListSlice(s, lo, hi) ==
  LET h == IF hi < Len(s) THEN hi ELSE Len(s)
  IN  IF lo >= h THEN <<>> ELSE [k \in 1..(h - lo) |-> s[lo + k]]

RECURSIVE SplitAcc(_, _, _, _, _)
SplitAcc(s, sep, i, cur, acc) ==
  IF i > Len(s) THEN Append(acc, cur)
  ELSE IF s[i] = sep THEN SplitAcc(s, sep, i + 1, <<>>, Append(acc, cur))
  ELSE SplitAcc(s, sep, i + 1, Append(cur, s[i]), acc)

\* str.split(sep): one more piece than there are separators
Split(s, sep) == SplitAcc(s, sep, 1, <<>>, <<>>)

RECURSIVE LStrip(_)
LStrip(s) == IF Len(s) > 0 /\ s[1] = SPACE THEN LStrip(Tail(s)) ELSE s

RECURSIVE RStrip(_)
RStrip(s) ==
  IF Len(s) > 0 /\ s[Len(s)] = SPACE THEN RStrip(SubSeq(s, 1, Len(s) - 1)) ELSE s

\* str.strip(' ')
Strip(s) == RStrip(LStrip(s))

StripAll(items) == [k \in 1..Len(items) |-> Strip(items[k])]

(***************************************************************************)
(* collections.defaultdict(list), in insertion order: a sequence of        *)
(* [key, val] entries.                                                     *)
(***************************************************************************)
DictKeys(d) == [k \in 1..Len(d) |-> d[k].key]

DictHas(d, key) == \E k \in 1..Len(d) : d[k].key = key

\* d[key].append(v): a missing key is first inserted with an empty list
DictAppend(d, key, v) ==
  IF DictHas(d, key)
  THEN [k \in 1..Len(d) |->
          IF d[k].key = key THEN [key |-> key, val |-> Append(d[k].val, v)]
                            ELSE d[k]]
  ELSE Append(d, [key |-> key, val |-> <<v>>])

\* what a method returns or raises
RetList(l) == [kind |-> "list", val |-> l, err |-> ""]
RetStr(s) == [kind |-> "str", val |-> <<s>>, err |-> ""]
RetNone == [kind |-> "None", val |-> <<>>, err |-> ""]
Raise(e) == [kind |-> "raise", val |-> <<>>, err |-> e]

\* d.get(key): None for a missing key, nothing is inserted
DictGet(d, key) ==
  IF DictHas(d, key)
  THEN RetList(d[CHOOSE k \in 1..Len(d) : d[k].key = key].val)
  ELSE RetNone

(***************************************************************************)
(* validate_ephemeris_data and get_jpl_ephemeris.                          *)
(***************************************************************************)
RECURSIVE FirstFaultFrom(_, _)
FirstFaultFrom(response, k) ==
  IF k > Len(FAULT_MARKERS) THEN 0
  ELSE IF Contains(response, FAULT_MARKERS[k]) THEN k
  ELSE FirstFaultFrom(response, k + 1)

\* a variant that tests "No matches found." before the other phrases
validate_ephemeris_data_reordered(response) ==
  IF Contains(response, FAULT_MARKERS[5]) THEN 5 ELSE FirstFaultFrom(response, 1)

\* the number of the if statement that raises, 0 when none does
validate_ephemeris_data(response) == FirstFaultFrom(response, 1)

\* the text the service answered with goes through validation and is returned
get_jpl_ephemeris(served) ==
  LET f == validate_ephemeris_data(served)
  IN  IF f # 0
      THEN [err |-> "SystemError", fault |-> f, text |-> <<>>]
      ELSE [err |-> "", fault |-> 0, text |-> served]

(***************************************************************************)
(* Ephemeris.clean_ephemeris_data and Ephemeris.parse_ephemeris_data.      *)
(***************************************************************************)
NonEmpty(s) == s # <<>>
NotIllegal(s) == s \notin ILLEGAL_CHARACTER_FROM_JPL

\* the header tokens: split on ',', stripped, the empty ones dropped
TitlesOf(line) == SelectSeq(StripAll(Split(line, COMMA)), NonEmpty)

\* the fields of a data row: split on ',', stripped, the noise tokens dropped
RowItems(row) == SelectSeq(StripAll(Split(row, COMMA)), NotIllegal)

\* a variant that reads to the end of the text when there is no $$EOE line
clean_ephemeris_data_open_ended(raw) ==
  LET entries == Split(raw, NL)
      soe == ListIndex(entries, <<SOE>>)
  IN  IF soe.err # "" THEN [err |-> soe.err, entries |-> <<>>, titles |-> <<>>]
      ELSE LET line == ListItem(entries, soe.i - 2)
           IN  IF line.err # ""
               THEN [err |-> line.err, entries |-> <<>>, titles |-> <<>>]
               ELSE LET eoe == ListIndex(entries, <<EOE>>)
                        hi == IF eoe.err # "" THEN Len(entries) ELSE eoe.i
                    IN  [err |-> "",
                         entries |-> ListSlice(entries, soe.i + 1, hi),
                         titles |-> TitlesOf(line.v)]

clean_ephemeris_data(raw) ==
  LET entries == Split(raw, NL)
      soe == ListIndex(entries, <<SOE>>)
  IN  IF soe.err # "" THEN [err |-> soe.err, entries |-> <<>>, titles |-> <<>>]
      ELSE LET line == ListItem(entries, soe.i - 2)
           IN  IF line.err # ""
               THEN [err |-> line.err, entries |-> <<>>, titles |-> <<>>]
               ELSE LET eoe == ListIndex(entries, <<EOE>>)
                    IN  IF eoe.err # ""
                        THEN [err |-> eoe.err, entries |-> <<>>, titles |-> <<>>]
                        ELSE [err |-> "",
                              entries |-> ListSlice(entries, soe.i + 1, eoe.i),
                              titles |-> TitlesOf(line.v)]

\* the inner loop: for j, column in enumerate( self.DATA_TITLES )
RECURSIVE ParseColumns(_, _, _, _)
ParseColumns(ephemeris, titles, row_items, j) ==
  IF j > Len(titles) THEN [err |-> "", data |-> ephemeris]
  ELSE IF j > Len(row_items) THEN [err |-> "IndexError", data |-> ephemeris]
  ELSE ParseColumns(DictAppend(ephemeris, titles[j], row_items[j]),
                    titles, row_items, j + 1)

\* the outer loop: for i, row in enumerate( self.DATA_ENTRIES )
RECURSIVE ParseRows(_, _, _, _)
ParseRows(ephemeris, titles, entries, i) ==
  IF i > Len(entries) THEN [err |-> "", data |-> ephemeris]
  ELSE LET r == ParseColumns(ephemeris, titles, RowItems(entries[i]), 1)
       IN  IF r.err # "" THEN r
           ELSE ParseRows(r.data, titles, entries, i + 1)

parse_ephemeris_data(entries, titles) == ParseRows(<<>>, titles, entries, 1)

(***************************************************************************)
(* Ephemeris.__init__: the object it leaves behind, or the error it raises.*)
(* attrs is the set of attributes assigned before the constructor ended.   *)
(***************************************************************************)
Ephemeris_init(served) ==
  LET g == get_jpl_ephemeris(served)
      none == [status |-> "new", fault |-> NoFault, attrs |-> {}, raw |-> <<>>,
               entries |-> <<>>, titles |-> <<>>, parsed |-> <<>>]
  IN  IF g.err # "" THEN [none EXCEPT !.status = "fault", !.fault = FaultMessage(g.fault)]
      ELSE LET c == clean_ephemeris_data(g.text)
               r1 == [none EXCEPT !.raw = g.text, !.attrs = {"RAW_DATA"}]
           IN  IF c.err # "" THEN [r1 EXCEPT !.status = c.err]
               ELSE LET p == parse_ephemeris_data(c.entries, c.titles)
                        r2 == [r1 EXCEPT !.entries = c.entries,
                                         !.titles = c.titles,
                                         !.attrs = {"RAW_DATA", "DATA_ENTRIES",
                                                    "DATA_TITLES"}]
                    IN  IF p.err # "" THEN [r2 EXCEPT !.status = p.err]
                        ELSE [r2 EXCEPT !.status = "constructed",
                                        !.parsed = p.data,
                                        !.attrs = {"RAW_DATA", "DATA_ENTRIES",
                                                   "DATA_TITLES", "PARSED_DATA"}]

(***************************************************************************)
(* The responses the service is taken to answer with.                      *)
(***************************************************************************)
HdrDate == <<DATE_TITLE[1], ",", "b">>
HdrDup == <<" ", DATE_TITLE[1], " ", ",", " ", "b", ",", ",", DATE_TITLE[1]>>
Stars == <<"*", "*">>
PreLines == {HdrDate, HdrDup, Stars}

RowNoise == <<" ", "x", " ", ",", " ", "m", " ", ",", "z", ",">>
RowShort == <<"y">>
RowLong == <<"x", ",", "y", ",", "z">>
RowLines == {RowNoise, RowShort, RowLong}

NearSOE == <<" ", SOE>>
Footer == <<"f">>

SeqsUpTo(S, n) == UNION {[1..k -> S] : k \in 0..n}

RECURSIVE Join(_)
Join(lines) ==
  IF Len(lines) = 0 THEN <<>>
  ELSE IF Len(lines) = 1 THEN lines[1]
  ELSE lines[1] \o <<NL>> \o Join(Tail(lines))

StartParts == {<<>>, <<(<<SOE>>)>>, <<NearSOE>>}
EndParts == {<<>>, <<(<<EOE>>)>>}
PostParts == {<<>>, <<Footer>>}

CleanBodies ==
  { Join(pre \o start \o rows \o end \o post) :
      pre \in SeqsUpTo(PreLines, MaxPre), start \in StartParts,
      rows \in SeqsUpTo(RowLines, MaxRows), end \in EndParts,
      post \in PostParts }

FaultLine(k) == <<" ", FAULT_MARKERS[k], ".">>
BaseLines == {<<>>, <<HdrDate, Stars, (<<SOE>>), RowNoise, (<<EOE>>)>>}
InsertAt(base, p, extra) ==
  SubSeq(base, 1, p) \o extra \o SubSeq(base, p + 1, Len(base))

FaultBodies ==
  { Join(InsertAt(b[1], b[2], [k \in 1..Len(ms) |-> FaultLine(ms[k])])) :
      b \in {c \in BaseLines \X {0, 2, 5} : c[2] <= Len(c[1])},
      ms \in (SeqsUpTo(1..Len(FAULT_MARKERS), MaxFaults) \ {<<>>}) }

Bodies == CleanBodies \cup FaultBodies

TitleArgs == {DATE_TITLE, <<"b">>, <<"foo">>}
ValueArgs == {<<"x">>, <<"z">>, <<"f", "o", "o", "b", "a", "r">>}

(***************************************************************************)
(* State.                                                                  *)
(***************************************************************************)
VARIABLES response, status, fault, attrs, RAW_DATA, DATA_ENTRIES, DATA_TITLES,
          PARSED_DATA, call, result

table == <<RAW_DATA, DATA_ENTRIES, DATA_TITLES, PARSED_DATA>>
vars == <<response, status, fault, attrs, RAW_DATA, DATA_ENTRIES, DATA_TITLES,
          PARSED_DATA, call, result>>

NoCall == [op |-> "", args |-> <<>>]

Init ==
  /\ response \in Bodies
  /\ status = "new"
  /\ fault = NoFault
  /\ attrs = {}
  /\ RAW_DATA = <<>>
  /\ DATA_ENTRIES = <<>>
  /\ DATA_TITLES = <<>>
  /\ PARSED_DATA = <<>>
  /\ call = NoCall
  /\ result = RetNone

\* Ephemeris( ... ): the one request, validation, cleaning and parsing
Construct ==
  /\ status = "new"
  /\ LET e == Ephemeris_init(response)
     IN  /\ status' = e.status
         /\ fault' = e.fault
         /\ attrs' = e.attrs
         /\ RAW_DATA' = e.raw
         /\ DATA_ENTRIES' = e.entries
         /\ DATA_TITLES' = e.titles
         /\ PARSED_DATA' = e.parsed
  /\ UNCHANGED <<response, call, result>>

(***************************************************************************)
(* Query methods.                                                          *)
(***************************************************************************)
get_ephemeris_data(column_title) ==
  IF ~Contains(DATA_TITLES, column_title)
  THEN Raise("SystemError")
  ELSE DictGet(PARSED_DATA, column_title)

dates == get_ephemeris_data(DATE_TITLE)

find_corresponding_data(target_title, source_title, source_data_point) ==
  LET source_data == get_ephemeris_data(source_title)
  IN  IF source_data.kind = "raise" THEN source_data
      ELSE IF source_data.kind = "None" THEN Raise("AttributeError")
      ELSE IF ~Contains(source_data.val, source_data_point) THEN RetNone
      ELSE LET target_data == get_ephemeris_data(target_title)
           IN  IF target_data.kind = "raise" THEN target_data
               ELSE IF target_data.kind = "None" THEN Raise("TypeError")
               ELSE LET item == ListItem(target_data.val,
                                         ListIndex(source_data.val,
                                                   source_data_point).i)
                    IN  IF item.err # "" THEN Raise(item.err)
                        ELSE RetStr(item.v)

\* a variant that reads the column with PARSED_DATA[ column_title ]
GetEphemerisData_subscript(column_title) ==
  /\ status = "constructed"
  /\ call' = [op |-> "get_ephemeris_data", args |-> <<column_title>>]
  /\ result' = get_ephemeris_data(column_title)
  /\ PARSED_DATA' = IF Contains(DATA_TITLES, column_title)
                       /\ ~DictHas(PARSED_DATA, column_title)
                    THEN Append(PARSED_DATA, [key |-> column_title, val |-> <<>>])
                    ELSE PARSED_DATA
  /\ UNCHANGED <<response, status, fault, attrs, RAW_DATA, DATA_ENTRIES,
                 DATA_TITLES>>

GetEphemerisData(column_title) ==
  /\ status = "constructed"
  /\ call' = [op |-> "get_ephemeris_data", args |-> <<column_title>>]
  /\ result' = get_ephemeris_data(column_title)
  /\ UNCHANGED <<response, status, fault, attrs, table>>

Dates ==
  /\ status = "constructed"
  /\ call' = [op |-> "dates", args |-> <<>>]
  /\ result' = dates
  /\ UNCHANGED <<response, status, fault, attrs, table>>

FindCorrespondingData(target_title, source_title, source_data_point) ==
  /\ status = "constructed"
  /\ call' = [op |-> "find_corresponding_data",
              args |-> <<target_title, source_title, source_data_point>>]
  /\ result' = find_corresponding_data(target_title, source_title,
                                       source_data_point)
  /\ UNCHANGED <<response, status, fault, attrs, table>>

Next ==
  \/ Construct
  \/ \E t \in TitleArgs : GetEphemerisData(t)
  \/ Dates
  \/ \E t \in TitleArgs, s \in TitleArgs, v \in ValueArgs :
        FindCorrespondingData(t, s, v)

Spec == Init /\ [][Next]_vars

(***************************************************************************)
(* What the response holds, read off the text itself.                      *)
(***************************************************************************)
Lines == Split(response, NL)
\* the token stands alone on its line
AloneAt(tok, i) ==
  /\ response[i] = tok
  /\ (i = 1 \/ response[i - 1] = NL)
  /\ (i = Len(response) \/ response[i + 1] = NL)
HasSOE == \E i \in 1..Len(response) : AloneAt(SOE, i)
HasEOE == \E i \in 1..Len(response) : AloneAt(EOE, i)
FirstSOE == CHOOSE i \in 1..Len(Lines) :
              Lines[i] = <<SOE>> /\ \A k \in 1..(i - 1) : Lines[k] # <<SOE>>
FirstEOE == CHOOSE i \in 1..Len(Lines) :
              Lines[i] = <<EOE>> /\ \A k \in 1..(i - 1) : Lines[k] # <<EOE>>
DataLineNumbers == {i \in 1..Len(Lines) : FirstSOE < i /\ i < FirstEOE}
NumDataLines == Cardinality(DataLineNumbers)
MarkersPresent ==
  {k \in 1..Len(FAULT_MARKERS) :
     \E i \in 1..Len(response) : response[i] = FAULT_MARKERS[k]}
EarliestMarker == CHOOSE k \in MarkersPresent : \A m \in MarkersPresent : k <= m
PositionOf(k) == CHOOSE i \in 1..Len(response) : response[i] = FAULT_MARKERS[k]
IsTitle(t) == \E j \in 1..Len(DATA_TITLES) : DATA_TITLES[j] = t
\* the values of a column; a column without a key has none
ColumnOf(t) ==
  IF \E k \in 1..Len(PARSED_DATA) : PARSED_DATA[k].key = t
  THEN PARSED_DATA[CHOOSE k \in 1..Len(PARSED_DATA) : PARSED_DATA[k].key = t].val
  ELSE <<>>
Occurs(l, v) == \E i \in 1..Len(l) : l[i] = v
FirstOccurrence(l, v) ==
  CHOOSE i \in 1..Len(l) : l[i] = v /\ \A k \in 1..(i - 1) : l[k] # v

(***************************************************************************)
(* C1: in every constructed Ephemeris the keys of PARSED_DATA are          *)
(* DATA_TITLES in the same order, and get_ephemeris_data(t) is, for every  *)
(* title t, a list whose length is the number of lines strictly between    *)
(* the $$SOE and $$EOE lines, also when that number is 0.                  *)
(***************************************************************************)
C1_KeysAndLengths ==
  status = "constructed" =>
    /\ DictKeys(PARSED_DATA) = DATA_TITLES
    /\ \A j \in 1..Len(DATA_TITLES) :
         LET r == get_ephemeris_data(DATA_TITLES[j])
         IN  r.kind = "list" /\ Len(r.val) = NumDataLines

(***************************************************************************)
(* C2: get_ephemeris_data(t) raises SystemError for every t that is not    *)
(* in DATA_TITLES and returns the column's list of values, without         *)
(* raising, for every t that is.                                           *)
(***************************************************************************)
C2_UnknownColumn ==
  (status = "constructed" /\ call.op = "get_ephemeris_data") =>
    LET t == call.args[1]
    IN  IF IsTitle(t)
        THEN result.kind = "list" /\ result.val = ColumnOf(t)
        ELSE result = Raise("SystemError")

(***************************************************************************)
(* C3: find_corresponding_data(T, S, v) returns None and does not raise    *)
(* whenever T and S are parsed titles and v does not occur among the       *)
(* values of column S.                                                     *)
(***************************************************************************)
C3_AbsentIsNone ==
  (status = "constructed" /\ call.op = "find_corresponding_data") =>
    LET T == call.args[1]
        S == call.args[2]
        v == call.args[3]
    IN  (IsTitle(T) /\ IsTitle(S) /\ ~Occurs(ColumnOf(S), v)) => result = RetNone

(***************************************************************************)
(* C4: when v occurs in column S, find_corresponding_data(T, S, v) returns *)
(* the value of column T at the first row index whose S value is v.        *)
(***************************************************************************)
C4_FirstOccurrence ==
  (status = "constructed" /\ call.op = "find_corresponding_data") =>
    LET T == call.args[1]
        S == call.args[2]
        v == call.args[3]
    IN  (IsTitle(T) /\ IsTitle(S) /\ Occurs(ColumnOf(S), v)) =>
          LET k == FirstOccurrence(ColumnOf(S), v)
          IN  /\ result.kind = "str"
              /\ k <= Len(ColumnOf(T))
              /\ result.val[1] = ColumnOf(T)[k]

(***************************************************************************)
(* C5: a response that contains at least one fault phrase makes            *)
(* construction fail with the fault of the earliest phrase in catalog      *)
(* order, whatever sentinels it holds, before anything is parsed or        *)
(* assigned; a response that contains none is returned unchanged.          *)
(***************************************************************************)
C5_FaultDetection ==
  status # "new" =>
    IF MarkersPresent # {}
    THEN /\ status = "fault"
         /\ fault = FaultMessage(EarliestMarker)
         /\ attrs = {}
         /\ table = <<(<<>>), (<<>>), (<<>>), (<<>>)>>
    ELSE /\ status # "fault"
         /\ fault = NoFault
         /\ "RAW_DATA" \in attrs
         /\ RAW_DATA = response

\* a fault raised for a response with well-formed sentinels and two phrases,
\* the one met first in the text being the later one of the catalog
C5_Witness ==
  /\ status = "fault"
  /\ HasSOE /\ HasEOE
  /\ \E k \in MarkersPresent :
       k # EarliestMarker /\ PositionOf(k) < PositionOf(EarliestMarker)

(***************************************************************************)
(* C6: a fault-free response without a line that is exactly $$SOE, or      *)
(* without a line that is exactly $$EOE, makes construction fail with an   *)
(* error and no table; a table exists only when both lines are present.    *)
(***************************************************************************)
C6_MissingSentinel ==
  /\ (status # "new" /\ MarkersPresent = {} /\ ~(HasSOE /\ HasEOE)) =>
       /\ status \in {"ValueError", "IndexError"}
       /\ "PARSED_DATA" \notin attrs
       /\ PARSED_DATA = <<>>
  /\ status = "constructed" => (HasSOE /\ HasEOE)

\* construction failed on a response that has the start line but no end line
C6_Witness ==
  /\ status = "ValueError"
  /\ HasSOE /\ ~HasEOE
  /\ FirstSOE > 2

(***************************************************************************)
(* C7: no query, succeeding or failing, changes DATA_TITLES, DATA_ENTRIES  *)
(* or PARSED_DATA of a constructed Ephemeris.                              *)
(***************************************************************************)
C7_QueriesAreReadOnly ==
  [][status = "constructed" =>
       /\ DATA_TITLES' = DATA_TITLES
       /\ DATA_ENTRIES' = DATA_ENTRIES
       /\ PARSED_DATA' = PARSED_DATA]_vars

\* a query answered on a table without rows, where a column has no key yet
C7_Witness ==
  /\ status = "constructed"
  /\ call.op = "get_ephemeris_data"
  /\ IsTitle(call.args[1])
  /\ PARSED_DATA = <<>>

(***************************************************************************)
(* C8: the value at row i of the column of the j-th title is the j-th      *)
(* field left of the i-th line between the sentinels after splitting on    *)
(* ',', trimming and dropping the noise tokens; no row is reordered,       *)
(* merged or skipped.                                                      *)
(***************************************************************************)
C8_Positional ==
  status = "constructed" =>
    \A i \in 1..NumDataLines, j \in 1..Len(DATA_TITLES) :
      LET col == ColumnOf(DATA_TITLES[j])
          fields == RowItems(Lines[FirstSOE + i])
      IN  /\ Len(col) = NumDataLines
          /\ j <= Len(fields)
          /\ col[i] = fields[j]

(***************************************************************************)
(* C9: a data line that yields, after trimming and noise removal, a number *)
(* of fields different from the number of titles makes construction fail;  *)
(* no constructed table holds such a row.                                  *)
(***************************************************************************)
C9_RaggedRejected ==
  status = "constructed" =>
    \A i \in DataLineNumbers : Len(RowItems(Lines[i])) = Len(DATA_TITLES)

(***************************************************************************)
(* C10: DATA_TITLES is the list of non-empty trimmed comma-separated       *)
(* tokens of the line two positions before the first $$SOE line, a line    *)
(* that precedes the sentinel, and the titles are pairwise distinct.       *)
(***************************************************************************)
C10_TitleLine ==
  status = "constructed" =>
    /\ FirstSOE - 2 >= 1
    /\ DATA_TITLES = TitlesOf(Lines[FirstSOE - 2])
    /\ \A j \in 1..Len(DATA_TITLES), k \in 1..Len(DATA_TITLES) :
         j # k => DATA_TITLES[j] # DATA_TITLES[k]

====
